---- MODULE Spec2Model ----
(***************************************************************************)
(* Video Timestamp Finder (src/main.py): the timestamp normaliser          *)
(* parse_timestamp_to_hhmmss / seconds_to_hhmmss and the POST /ask handler *)
(* (download -> upload -> poll -> query -> parse, with the finally-block   *)
(* cleanup).                                                               *)
(*                                                                         *)
(* A Python str is a sequence of one-character strings.  An exception in   *)
(* flight and the value a request ends with are records.                   *)
(***************************************************************************)
EXTENDS Integers, Sequences, FiniteSets, TLC

VARIABLES
    ts,             \* parse_timestamp_to_hhmmss: the argument
    out,            \* its return value (NoValue before the call)
    out2,           \* the return value of a second call, on out
    pc,             \* ask: position in the handler
    files,          \* ask: the names present in tmp_dir
    tmp_audio,      \* ask: the local tmp_audio (NoPath, or a name in tmp_dir)
    returncode,     \* ask: result.returncode (None before the downloader ran)
    uploaded_file,  \* ask: the local uploaded_file (NoHandle, or a handle)
    waited,         \* ask: the local waited
    raised,         \* ask: the exception raised inside the try block, if any
    outcome,        \* ask: the pending return value or exception of the handler
    calls           \* ask: the calls made to the collaborators, in order

vars == <<ts, out, out2, pc, files, tmp_audio, returncode, uploaded_file,
              waited, raised, outcome, calls>>

(***************************************************************************)
(* Bounds of the model.                                                    *)
(***************************************************************************)
\* inputs of the normaliser are concatenations of at most MaxTokens tokens
MaxTokens == 6
\* the plain-seconds driver runs over the digit strings of 0 .. MaxSeconds-1
MaxSeconds == 86400

(***************************************************************************)
(* Characters and strings.                                                 *)
(***************************************************************************)
\* Python's None, for a returncode (a one-element sequence once there is one),
\* a path, a file handle, and an exception or return value
None == <<>>
NoPath == <<>>
NoHandle == [name |-> "", state |-> ""]
NoOutcome == [kind |-> "None", status_code |-> 0, detail |-> "", timestamp |-> <<>>]
NoValue == <<"?">>

DigitChars == <<"0", "1", "2", "3", "4", "5", "6", "7", "8", "9">>
Digits == {DigitChars[i] : i \in 1..10}
Whitespace == {" ", "\t", "\n"}

\* the value of one decimal digit, as int() reads it
DigitVal(c) == (CHOOSE i \in 1..10 : DigitChars[i] = c) - 1

\* int(s) for a string of decimal digits
RECURSIVE int(_)
int(s) ==
    IF s = <<>> THEN 0
    ELSE int(SubSeq(s, 1, Len(s) - 1)) * 10 + DigitVal(s[Len(s)])

\* str(n) for n >= 0
RECURSIVE str(_)
str(n) ==
    IF n < 10 THEN <<DigitChars[n + 1]>>
    ELSE str(n \div 10) \o <<DigitChars[(n % 10) + 1]>>

\* fmt02d with the width dropped from the format spec ({n:d})
fmt_d_unpadded(n) == str(n)

\* the format spec {n:02d}: decimal, zero-padded to a width of at least two
fmt02d(n) == IF n < 10 THEN <<"0">> \o str(n) ELSE str(n)

\* str.strip(): leading and trailing whitespace removed
RECURSIVE lstrip(_)
lstrip(s) ==
    IF s # <<>> /\ s[1] \in Whitespace THEN lstrip(Tail(s)) ELSE s

RECURSIVE rstrip(_)
rstrip(s) ==
    IF s # <<>> /\ s[Len(s)] \in Whitespace
    THEN rstrip(SubSeq(s, 1, Len(s) - 1)) ELSE s

strip(s) == rstrip(lstrip(s))

\* str.split(':')
RECURSIVE split(_)
split(s) ==
    IF \A i \in 1..Len(s) : s[i] # ":" THEN <<s>>
    ELSE LET i == CHOOSE k \in 1..Len(s) :
                      s[k] = ":" /\ \A j \in 1..(k - 1) : s[j] # ":"
         IN <<SubSeq(s, 1, i - 1)>> \o split(SubSeq(s, i + 1, Len(s)))

(***************************************************************************)
(* The regular expressions of parse_timestamp_to_hhmmss.  A pattern is a   *)
(* sequence of atoms, "d" for \d and ":" for a literal colon; \d{1,2} is   *)
(* the ordered pair of its expansions, the greedy one first, which is the  *)
(* order the backtracking matcher tries them in.                           *)
(***************************************************************************)
AtomMatches(a, c) == IF a = "d" THEN c \in Digits ELSE c = a

MatchAt(pat, s, i) ==
    /\ i + Len(pat) - 1 <= Len(s)
    /\ \A k \in 1..Len(pat) : AtomMatches(pat[k], s[i + k - 1])

RE_HHMMSS  == << <<"d", "d", ":", "d", "d", ":", "d", "d">> >>
RE_MMSS    == << <<"d", "d", ":", "d", "d">>, <<"d", ":", "d", "d">> >>
RE_H_MM_SS == << <<"d", "d", ":", "d", "d", ":", "d", "d">>,
                 <<"d", ":", "d", "d", ":", "d", "d">> >>

NoMatch == [matched |-> FALSE, text |-> <<>>]

\* the first alternative, in order, that matches s at i (all of s when `whole`)
FirstAlt(alts, s, i, whole) ==
    LET ok(a) == MatchAt(alts[a], s, i) /\ (whole => Len(alts[a]) = Len(s))
    IN IF \E a \in 1..Len(alts) : ok(a)
       THEN LET a == CHOOSE x \in 1..Len(alts) :
                         ok(x) /\ \A y \in 1..(x - 1) : ~ok(y)
            IN [matched |-> TRUE, text |-> SubSeq(s, i, i + Len(alts[a]) - 1)]
       ELSE NoMatch

\* re.match(r'^...$', s) on a string without a trailing newline
re_match(alts, s) == FirstAlt(alts, s, 1, TRUE)

\* re.search(r'...', s): the leftmost position where an alternative matches
re_search(alts, s) ==
    LET hit(i) == FirstAlt(alts, s, i, FALSE).matched
    IN IF \E i \in 1..Len(s) : hit(i)
       THEN FirstAlt(alts, s,
                     CHOOSE i \in 1..Len(s) : hit(i) /\ \A j \in 1..(i - 1) : ~hit(j),
                     FALSE)
       ELSE NoMatch

\* re.match(r'^\d+$', s)
AllDigits(s) == s # <<>> /\ \A i \in 1..Len(s) : s[i] \in Digits

(***************************************************************************)
(* seconds_to_hhmmss and parse_timestamp_to_hhmmss.                        *)
(***************************************************************************)
\* seconds_to_hhmmss with the minutes not reduced modulo the hour
seconds_minutes_not_reduced(seconds) ==
    LET h == seconds \div 3600
        m == seconds \div 60
        s == seconds % 60
    IN fmt02d(h) \o <<":">> \o fmt02d(m) \o <<":">> \o fmt02d(s)

seconds_to_hhmmss(seconds) ==
    LET h == seconds \div 3600
        m == (seconds % 3600) \div 60
        s == seconds % 60
    IN fmt02d(h) \o <<":">> \o fmt02d(m) \o <<":">> \o fmt02d(s)

\* f"00:{int(parts[0]):02d}:{int(parts[1]):02d}"
FormatMMSS(parts) ==
    <<"0", "0", ":">> \o fmt02d(int(parts[1])) \o <<":">> \o fmt02d(int(parts[2]))

\* f"{int(g1):02d}:{int(g2):02d}:{int(g3):02d}"
FormatHHMMSS(parts) ==
    fmt02d(int(parts[1])) \o <<":">> \o fmt02d(int(parts[2]))
        \o <<":">> \o fmt02d(int(parts[3]))

\* parse_timestamp_to_hhmmss with the two searches in the other order
parse_mmss_search_first(raw) ==
    LET t == strip(raw)
    IN IF re_match(RE_HHMMSS, t).matched THEN t
       ELSE IF re_match(RE_MMSS, t).matched THEN FormatMMSS(split(t))
       ELSE IF AllDigits(t) THEN seconds_to_hhmmss(int(t))
       ELSE IF re_search(RE_MMSS, t).matched
            THEN FormatMMSS(split(re_search(RE_MMSS, t).text))
       ELSE IF re_search(RE_H_MM_SS, t).matched
            THEN FormatHHMMSS(split(re_search(RE_H_MM_SS, t).text))
       ELSE <<"0", "0", ":", "0", "0", ":", "0", "0">>

parse_timestamp_to_hhmmss(raw) ==
    LET t == strip(raw)
    IN IF re_match(RE_HHMMSS, t).matched THEN t
       ELSE IF re_match(RE_MMSS, t).matched THEN FormatMMSS(split(t))
       ELSE IF AllDigits(t) THEN seconds_to_hhmmss(int(t))
       ELSE IF re_search(RE_H_MM_SS, t).matched
            THEN FormatHHMMSS(split(re_search(RE_H_MM_SS, t).text))
       ELSE IF re_search(RE_MMSS, t).matched
            THEN FormatMMSS(split(re_search(RE_MMSS, t).text))
       ELSE <<"0", "0", ":", "0", "0", ":", "0", "0">>

(***************************************************************************)
(* The POST /ask handler (src/main.py, ask).                               *)
(***************************************************************************)
max_wait == 120
poll_interval == 3

\* names the downloader may leave in tmp_dir; os.path.join(tmp_dir, f) is f
AUDIO_MP3  == <<"a", "u", "d", "i", "o", ".", "m", "p", "3">>
AUDIO_WEBM == <<"a", "u", "d", "i", "o", ".", "w", "e", "b", "m">>
COVER_JPG  == <<"c", "o", "v", "e", "r", ".", "j", "p", "g">>
FileNames  == {AUDIO_MP3, AUDIO_WEBM, COVER_JPG}

\* f.startswith("audio")
startswith_audio(f) ==
    Len(f) >= 5 /\ SubSeq(f, 1, 5) = <<"a", "u", "d", "i", "o">>

\* uploaded_file.state.name of the remote file handle
FileStates == {"PROCESSING", "ACTIVE", "FAILED"}

\* result_data["timestamp"] strings the remote model may answer with
Replies == { <<"0", "0", ":", "0", "5", ":", "4", "7">>,
             <<"0", "2", ":", "1", "5">>,
             <<"3", "4", "7">>,
             <<"a", "t", " ", "1", ":", "0", "2", ":", "0", "3">>,
             <<"n", "o", "n", "e">> }

HTTPException(status, detail) ==
    [kind |-> "HTTPException", status_code |-> status, detail |-> detail,
     timestamp |-> <<>>]

\* any exception that is not an HTTPException; detail is str(e)
OtherException(text) ==
    [kind |-> "Exception", status_code |-> 0, detail |-> text, timestamp |-> <<>>]

JSONResponse(timestamp) ==
    [kind |-> "JSONResponse", status_code |-> 200, detail |-> "",
     timestamp |-> timestamp]

Call(op, ok) == [op |-> op, raised |-> ~ok]

Count(op) == Cardinality({i \in 1..Len(calls) : calls[i].op = op})

\* Except without the pass-through clause: every exception is rewrapped
Except_rewrap_all(e) == HTTPException(500, e.detail)

\* except HTTPException: raise / except Exception as e: raise HTTPException(500, str(e))
Except(e) ==
    IF e.kind = "HTTPException" THEN e ELSE HTTPException(500, e.detail)

\* an exception leaves the try block: the except clauses, then finally
Raise(e) ==
    /\ raised' = e
    /\ outcome' = Except(e)
    /\ pc' = "cleanup_local"

\* Swallow without the try/except: the cleanup's exception replaces what was
\* pending and leaves the handler through the framework's catch-all
Swallow_reraise(pending, e) == HTTPException(500, e.detail)

\* except: pass, around each cleanup call
Swallow(pending, e) == pending

InitAsk ==
    /\ pc = "start"
    /\ files = {}
    /\ tmp_audio = NoPath
    /\ returncode = None
    /\ uploaded_file = NoHandle
    /\ waited = 0
    /\ raised = NoOutcome
    /\ outcome = NoOutcome
    /\ calls = <<>>

\* tmp_dir = tempfile.mkdtemp(); tmp_audio = os.path.join(tmp_dir, "audio.mp3")
Mkdtemp ==
    /\ pc = "start"
    /\ \/ /\ tmp_audio' = AUDIO_MP3
          /\ pc' = "download"
          /\ UNCHANGED <<raised, outcome>>
       \/ /\ Raise(OtherException("mkdtemp: OSError"))
          /\ UNCHANGED tmp_audio
    /\ UNCHANGED <<ts, out, out2, files, returncode, uploaded_file, waited, calls>>

\* result = subprocess.run(cmd, ..., timeout=120) and the returncode test
Download ==
    /\ pc = "download"
    /\ \E written \in SUBSET FileNames :
       \E result \in {"exit 0", "exit 1", "TimeoutExpired", "FileNotFoundError"} :
          /\ result = "FileNotFoundError" => written = {}
          /\ files' = written
          /\ calls' = Append(calls, Call("download", result \in {"exit 0", "exit 1"}))
          /\ CASE result = "exit 0" ->
                    /\ returncode' = <<0>>
                    /\ pc' = "locate"
                    /\ UNCHANGED <<raised, outcome>>
               [] result = "exit 1" ->
                    /\ returncode' = <<1>>
                    /\ Raise(HTTPException(400, "yt-dlp error: <stderr>"))
               [] OTHER ->
                    /\ returncode' = None
                    /\ Raise(OtherException(result))
    /\ UNCHANGED <<ts, out, out2, tmp_audio, uploaded_file, waited>>

\* if not os.path.exists(tmp_audio): the first listed name starting with "audio"
Locate ==
    /\ pc = "locate"
    /\ IF tmp_audio \notin files /\ \E f \in files : startswith_audio(f)
       THEN \E f \in files : startswith_audio(f) /\ tmp_audio' = f
       ELSE UNCHANGED tmp_audio
    /\ pc' = "check"
    /\ UNCHANGED <<ts, out, out2, files, returncode, uploaded_file, waited, raised, outcome, calls>>

\* if not os.path.exists(tmp_audio): raise HTTPException(500, ...)
CheckAudio ==
    /\ pc = "check"
    /\ IF tmp_audio \notin files
       THEN Raise(HTTPException(500, "Audio file not created"))
       ELSE pc' = "upload" /\ UNCHANGED <<raised, outcome>>
    /\ UNCHANGED <<ts, out, out2, files, tmp_audio, returncode, uploaded_file, waited, calls>>

\* uploaded_file = client.files.upload(...); max_wait = 120; waited = 0
Upload ==
    /\ pc = "upload"
    /\ \/ \E st \in FileStates :
             /\ uploaded_file' = [name |-> "files/1", state |-> st]
             /\ calls' = Append(calls, Call("upload", TRUE))
             /\ waited' = 0
             /\ pc' = "poll"
             /\ UNCHANGED <<raised, outcome>>
       \/ /\ calls' = Append(calls, Call("upload", FALSE))
          /\ Raise(OtherException("upload failed"))
          /\ UNCHANGED <<uploaded_file, waited>>
    /\ UNCHANGED <<ts, out, out2, files, tmp_audio, returncode>>

\* Poll with the ceiling compared inclusively (waited <= max_wait)
Poll_ceiling_inclusive ==
    /\ pc = "poll"
    /\ uploaded_file.state # "ACTIVE" /\ waited <= max_wait
    /\ waited' = waited + poll_interval
    /\ \/ \E st \in FileStates :
             /\ uploaded_file' = [uploaded_file EXCEPT !.state = st]
             /\ calls' = Append(calls, Call("get", TRUE))
             /\ UNCHANGED <<pc, raised, outcome>>
       \/ /\ calls' = Append(calls, Call("get", FALSE))
          /\ Raise(OtherException("get failed"))
          /\ UNCHANGED uploaded_file
    /\ UNCHANGED <<ts, out, out2, files, tmp_audio, returncode>>

\* one iteration of the while loop: sleep, waited += 3, re-fetch
Poll ==
    /\ pc = "poll"
    /\ uploaded_file.state # "ACTIVE" /\ waited < max_wait
    /\ waited' = waited + poll_interval
    /\ \/ \E st \in FileStates :
             /\ uploaded_file' = [uploaded_file EXCEPT !.state = st]
             /\ calls' = Append(calls, Call("get", TRUE))
             /\ UNCHANGED <<pc, raised, outcome>>
       \/ /\ calls' = Append(calls, Call("get", FALSE))
          /\ Raise(OtherException("get failed"))
          /\ UNCHANGED uploaded_file
    /\ UNCHANGED <<ts, out, out2, files, tmp_audio, returncode>>

\* PollExit without the state test after the loop
PollExit_proceeds ==
    /\ pc = "poll"
    /\ ~(uploaded_file.state # "ACTIVE" /\ waited < max_wait)
    /\ pc' = "query"
    /\ UNCHANGED <<ts, out, out2, files, tmp_audio, returncode, uploaded_file,
                   waited, raised, outcome, calls>>

\* the loop condition is false; if state != "ACTIVE": raise HTTPException(500, ...)
PollExit ==
    /\ pc = "poll"
    /\ ~(uploaded_file.state # "ACTIVE" /\ waited < max_wait)
    /\ IF uploaded_file.state # "ACTIVE"
       THEN Raise(HTTPException(500, "File processing timed out"))
       ELSE pc' = "query" /\ UNCHANGED <<raised, outcome>>
    /\ UNCHANGED <<ts, out, out2, files, tmp_audio, returncode, uploaded_file, waited, calls>>

\* client.models.generate_content(...), json.loads, .get("timestamp", "00:00:00"),
\* parse_timestamp_to_hhmmss, return JSONResponse
Query ==
    /\ pc = "query"
    /\ \/ /\ calls' = Append(calls, Call("generate_content", FALSE))
          /\ Raise(OtherException("generate_content failed"))
       \/ /\ calls' = Append(calls, Call("generate_content", TRUE))
          /\ \/ Raise(OtherException("JSONDecodeError"))
             \/ Raise(OtherException("AttributeError"))
             \/ \E reply \in Replies \cup {<<"0", "0", ":", "0", "0", ":", "0", "0">>} :
                   /\ outcome' = JSONResponse(parse_timestamp_to_hhmmss(reply))
                   /\ pc' = "cleanup_local"
                   /\ UNCHANGED raised
    /\ UNCHANGED <<ts, out, out2, files, tmp_audio, returncode, uploaded_file, waited>>

\* finally: if tmp_audio and os.path.exists(tmp_audio): try os.remove except pass
CleanupLocal ==
    /\ pc = "cleanup_local"
    /\ IF tmp_audio # NoPath /\ tmp_audio \in files
       THEN \/ /\ files' = files \ {tmp_audio}
               /\ calls' = Append(calls, Call("remove", TRUE))
               /\ UNCHANGED outcome
            \/ /\ calls' = Append(calls, Call("remove", FALSE))
               /\ outcome' = Swallow(outcome, OtherException("remove: OSError"))
               /\ UNCHANGED files
       ELSE UNCHANGED <<files, calls, outcome>>
    /\ pc' = "cleanup_remote"
    /\ UNCHANGED <<ts, out, out2, tmp_audio, returncode, uploaded_file, waited, raised>>

\* CleanupRemote moved from the finally block to the end of the try block: the
\* handle is deleted only when nothing was raised
CleanupRemote_on_success_only ==
    /\ pc = "cleanup_remote"
    /\ IF uploaded_file # NoHandle /\ raised = NoOutcome
       THEN \/ /\ calls' = Append(calls, Call("delete", TRUE))
               /\ UNCHANGED outcome
            \/ /\ calls' = Append(calls, Call("delete", FALSE))
               /\ outcome' = Swallow(outcome, OtherException("delete failed"))
       ELSE UNCHANGED <<calls, outcome>>
    /\ pc' = "done"
    /\ UNCHANGED <<ts, out, out2, files, tmp_audio, returncode, uploaded_file,
                   waited, raised>>

\* finally: if uploaded_file: try client.files.delete except pass
CleanupRemote ==
    /\ pc = "cleanup_remote"
    /\ IF uploaded_file # NoHandle
       THEN \/ /\ calls' = Append(calls, Call("delete", TRUE))
               /\ UNCHANGED outcome
            \/ /\ calls' = Append(calls, Call("delete", FALSE))
               /\ outcome' = Swallow(outcome, OtherException("delete failed"))
       ELSE UNCHANGED <<calls, outcome>>
    /\ pc' = "done"
    /\ UNCHANGED <<ts, out, out2, files, tmp_audio, returncode, uploaded_file, waited, raised>>

NextAsk ==
    \/ Mkdtemp
    \/ Download
    \/ Locate
    \/ CheckAudio
    \/ Upload
    \/ Poll
    \/ PollExit
    \/ Query
    \/ CleanupLocal
    \/ CleanupRemote

Init ==
    /\ InitAsk
    /\ ts = <<>>
    /\ out = NoValue
    /\ out2 = NoValue

Spec == Init /\ [][NextAsk]_vars

\* the handler runs to completion once started: every step is taken in turn
FairSpec == Spec /\ WF_vars(NextAsk)

(***************************************************************************)
(* Drivers of the normaliser alone: the argument is drawn from a bounded   *)
(* set of strings, the function is called on it, and once more on its own  *)
(* return value.                                                           *)
(***************************************************************************)
Tokens == { <<"7">>, <<"0", "5">>, <<"6", "1">>, <<":">>, <<" ">>, <<"a">> }

RECURSIVE Inputs(_)
Inputs(k) ==
    IF k = 0 THEN {<<>>}
    ELSE LET shorter == Inputs(k - 1)
         IN shorter \cup {s \o t : s \in shorter, t \in Tokens}

AskIdle ==
    /\ pc = "idle"
    /\ files = {}
    /\ tmp_audio = NoPath
    /\ returncode = None
    /\ uploaded_file = NoHandle
    /\ waited = 0
    /\ raised = NoOutcome
    /\ outcome = NoOutcome
    /\ calls = <<>>

\* timestamp = parse_timestamp_to_hhmmss(ts)
Normalize ==
    /\ pc = "idle"
    /\ out = NoValue
    /\ out' = parse_timestamp_to_hhmmss(ts)
    /\ UNCHANGED <<ts, out2, pc, files, tmp_audio, returncode, uploaded_file,
                   waited, raised, outcome, calls>>

\* parse_timestamp_to_hhmmss(timestamp), the function applied to its own output
Renormalize ==
    /\ pc = "idle"
    /\ out # NoValue
    /\ out2 = NoValue
    /\ out2' = parse_timestamp_to_hhmmss(out)
    /\ UNCHANGED <<ts, out, pc, files, tmp_audio, returncode, uploaded_file,
                   waited, raised, outcome, calls>>

NextNorm ==
    \/ Normalize
    \/ Renormalize

\* the model's integers are 32-bit: an all-digit argument is kept to the digit
\* counts whose every value fits (Python's int has no such limit)
MaxDigits == Len(str(2147483647)) - 1

Representable(s) == AllDigits(strip(s)) => Len(strip(s)) <= MaxDigits

InitParse ==
    /\ AskIdle
    /\ ts \in {s \in Inputs(MaxTokens) : Representable(s)}
    /\ out = NoValue
    /\ out2 = NoValue

SpecParse == InitParse /\ [][NextNorm]_vars

\* str(n) for every n below MaxSeconds
InitSeconds ==
    /\ AskIdle
    /\ ts \in {str(n) : n \in 0..(MaxSeconds - 1)}
    /\ out = NoValue
    /\ out2 = NoValue

SpecSeconds == InitSeconds /\ [][NextNorm]_vars

(***************************************************************************)
(* Properties of the normaliser.                                           *)
(***************************************************************************)
Field(s) == split(s)

IsField2(f) == Len(f) = 2 /\ AllDigits(f)

PlainSeconds(s) == AllDigits(strip(s))

\* C3: every return value of parse_timestamp_to_hhmmss is canonical: three
\* colon-separated fields of exactly two digits each, minutes and seconds in
\* 00..59; the hours field may be wider only for an all-digit argument of
\* 360000 seconds or more.
C3_Canonical ==
    out # NoValue =>
        LET f == Field(out)
        IN /\ Len(f) = 3
           /\ \A k \in 1..3 : AllDigits(f[k])
           /\ IsField2(f[2]) /\ IsField2(f[3])
           /\ IsField2(f[1])
                \/ (PlainSeconds(ts) /\ int(strip(ts)) >= 100 * 3600)
           /\ int(f[2]) \in 0..59
           /\ int(f[3]) \in 0..59

\* the rules of the normaliser as the specification words them, on characters
Trimmed(s) ==
    LET I == {i \in 1..Len(s) : s[i] \notin Whitespace}
    IN IF I = {} THEN <<>>
       ELSE SubSeq(s, CHOOSE i \in I : \A j \in I : i <= j,
                      CHOOSE i \in I : \A j \in I : i >= j)

IsDigitAt(s, i) == i \in 1..Len(s) /\ s[i] \in Digits
IsColonAt(s, i) == i \in 1..Len(s) /\ s[i] = ":"

\* at i: w digits, a colon, two digits
ShapeMS(s, i, w) ==
    /\ \A k \in 0..(w - 1) : IsDigitAt(s, i + k)
    /\ IsColonAt(s, i + w)
    /\ IsDigitAt(s, i + w + 1) /\ IsDigitAt(s, i + w + 2)

\* at i: w digits, a colon, two digits, a colon, two digits
ShapeHMS(s, i, w) ==
    /\ ShapeMS(s, i, w)
    /\ IsColonAt(s, i + w + 3)
    /\ IsDigitAt(s, i + w + 4) /\ IsDigitAt(s, i + w + 5)

\* the w digits at i, zero-padded to two
Padded(s, i, w) == IF w = 1 THEN <<"0", s[i]>> ELSE <<s[i], s[i + 1]>>

RenderMS(s, i, w) ==
    <<"0", "0", ":">> \o Padded(s, i, w) \o <<":", s[i + w + 1], s[i + w + 2]>>

RenderHMS(s, i, w) ==
    Padded(s, i, w) \o <<":", s[i + w + 1], s[i + w + 2]>>
                    \o <<":", s[i + w + 4], s[i + w + 5]>>

\* r renders n seconds: H:M:S in decimal, each at least two digits wide and no
\* wider than needed, with H*3600 + M*60 + S = n
RendersSeconds(r, n) ==
    LET f == Field(r)
    IN /\ Len(f) = 3
       /\ \A k \in 1..3 :
             AllDigits(f[k]) /\ Len(f[k]) >= 2 /\ (Len(f[k]) > 2 => f[k][1] # "0")
       /\ int(f[2]) < 60 /\ int(f[3]) < 60
       /\ int(f[1]) * 3600 + int(f[2]) * 60 + int(f[3]) = n

\* the earliest position of t where the shape starts, with its digit count
FirstShape(t, Shape(_, _, _)) ==
    CHOOSE p \in (1..Len(t)) \X {1, 2} :
        /\ Shape(t, p[1], p[2])
        /\ \A q \in (1..Len(t)) \X {1, 2} : Shape(t, q[1], q[2]) => p[1] <= q[1]

HasShape(t, Shape(_, _, _)) == \E i \in 1..Len(t), w \in {1, 2} : Shape(t, i, w)

Rule1(t) == Len(t) = 8 /\ ShapeHMS(t, 1, 2)
Rule2(t) == \E w \in {1, 2} : Len(t) = w + 3 /\ ShapeMS(t, 1, w)
Rule3(t) == t # <<>> /\ \A i \in 1..Len(t) : IsDigitAt(t, i)
Rule4(t) == HasShape(t, ShapeHMS)
Rule5(t) == HasShape(t, ShapeMS)

\* r is what the first applicable rule of the ordered list gives for raw
FirstRuleGives(raw, r) ==
    LET t == Trimmed(raw)
    IN IF Rule1(t) THEN r = t
       ELSE IF Rule2(t) THEN r = RenderMS(t, 1, Len(t) - 3)
       ELSE IF Rule3(t) THEN RendersSeconds(r, int(t))
       ELSE IF Rule4(t)
            THEN LET p == FirstShape(t, ShapeHMS) IN r = RenderHMS(t, p[1], p[2])
       ELSE IF Rule5(t)
            THEN LET p == FirstShape(t, ShapeMS) IN r = RenderMS(t, p[1], p[2])
       ELSE r = <<"0", "0", ":", "0", "0", ":", "0", "0">>

C5_SecondsRoundTrip ==
    out # NoValue =>
        LET f == Field(out)
        IN /\ Len(f) = 3
           /\ \A k \in 1..3 : AllDigits(f[k])
           /\ int(f[1]) * 3600 + int(f[2]) * 60 + int(f[3]) = int(ts)
           /\ int(f[2]) \in 0..59
           /\ int(f[3]) \in 0..59

\* C5's case: the last second of a day has been converted
C5_Witness ==
    /\ ts = <<"8", "6", "3", "9", "9">>
    /\ out = <<"2", "3", ":", "5", "9", ":", "5", "9">>

\* C10 as claimed: applying the function to its own return value gives that
\* value again, for every argument.
C10_Idempotent == out2 # NoValue => out2 = out

\* C10 as amended: the function is idempotent on every argument except the
\* all-digit ones of 360000 seconds or more; for those the first return value
\* has an hours field wider than two digits and the second call keeps only its
\* last eight characters.
C10_IdempotentUnlessWideHours ==
    out2 # NoValue =>
        IF PlainSeconds(ts) /\ int(strip(ts)) >= 100 * 3600
        THEN /\ Len(out) > 8
             /\ out2 = SubSeq(out, Len(out) - 7, Len(out))
        ELSE out2 = out

\* C10's case: a second call that changes nothing after a first call that
\* rewrote an argument of more than five characters
C10_Witness ==
    /\ out2 # NoValue
    /\ out2 = out
    /\ out # strip(ts)
    /\ Len(strip(ts)) > 5

(***************************************************************************)
(* Properties of the /ask handler.                                         *)
(***************************************************************************)
Called(op) == \E i \in 1..Len(calls) : calls[i].op = op

CallRaised(op) == \E i \in 1..Len(calls) : calls[i] = Call(op, FALSE)

\* the upload returned a handle
HandleAllocated == \E i \in 1..Len(calls) : calls[i] = Call("upload", TRUE)

Finishing == pc \in {"cleanup_local", "cleanup_remote", "done"}

ProcessingTimeout == HTTPException(500, "File processing timed out")

\* C1: when the upload returned a handle, its deletion is attempted exactly
\* once before the request ends, whatever happened after the upload; when no
\* handle was allocated, no deletion is attempted.
C1_DeleteExactlyOnce ==
    /\ Count("delete") <= 1
    /\ Called("delete") => HandleAllocated
    /\ pc = "done" => Count("delete") = (IF HandleAllocated THEN 1 ELSE 0)

\* C1's case: the query failed after the upload succeeded, and the request
\* has ended with one deletion attempted
C1_Witness ==
    /\ pc = "done"
    /\ HandleAllocated
    /\ CallRaised("generate_content")
    /\ Count("delete") = 1

\* C2: when the request has ended, on any exit path, no audio file the
\* download materialised is left in the temporary directory, whatever its
\* extension.  Stated for the requests in which os.remove did not fail, so
\* that a file left behind is one the handler never tried to delete.
C2_NoAudioFileLeft ==
    (pc = "done" /\ ~CallRaised("remove")) => \A f \in files : ~startswith_audio(f)

\* C6 as claimed: a request whose handle was never seen ready ends with the
\* processing-timeout error.
C6_NeverReadyIsTimeout ==
    (pc = "done" /\ HandleAllocated /\ uploaded_file.state # "ACTIVE")
        => outcome = ProcessingTimeout

C6_PollBounds ==
    /\ waited = poll_interval * Count("get")
    /\ waited <= max_wait
    /\ Count("get") <= 40
    /\ (pc = "done" /\ HandleAllocated /\ uploaded_file.state # "ACTIVE"
            /\ ~CallRaised("get"))
          => (outcome = ProcessingTimeout /\ ~Called("generate_content"))
    /\ (pc = "done" /\ CallRaised("get"))
          => (outcome = HTTPException(500, "get failed")
                /\ ~Called("generate_content"))

\* no re-fetch once a fetch has reported ready
C6_StopsWhenReady ==
    (uploaded_file.state = "ACTIVE") => (Count("get")' = Count("get"))

\* C6 as amended: the poll always terminates; it re-fetches at 3-second steps,
\* stops at the first fetch that reports ready, never accumulates more than
\* 120 seconds of waiting (at most 40 re-fetches), and when every re-fetch
\* returns and none within the ceiling reports ready the request fails with
\* the processing-timeout error instead of proceeding; a re-fetch that raises
\* ends the poll at once with a 500 carrying that exception's text.
C6_PollTerminates ==
    /\ []C6_PollBounds
    /\ [][C6_StopsWhenReady]_vars
    /\ (pc = "poll") ~> (pc = "done")

\* C6's case: forty re-fetches, none ready, and the request ended on the
\* processing-timeout error
C6_Witness ==
    /\ pc = "done"
    /\ Count("get") = 40
    /\ waited = max_wait
    /\ outcome = ProcessingTimeout

\* a cleanup step leaves the pending return value or exception as it is
C7_CleanupKeepsOutcome ==
    (pc \in {"cleanup_local", "cleanup_remote"}) => (outcome' = outcome)

\* C7: a failure of either cleanup action never changes what the request
\* returns or raises, and a failed local deletion does not keep the remote
\* deletion from being attempted.
C7_CleanupNeverMasks ==
    /\ [][C7_CleanupKeepsOutcome]_vars
    /\ []((pc = "done" /\ CallRaised("remove") /\ HandleAllocated)
            => Called("delete"))
    /\ []((pc = "done" /\ raised = NoOutcome) => outcome.kind = "JSONResponse")

\* C7's case: both deletions failed and the request still returned its
\* success body
C7_Witness ==
    /\ pc = "done"
    /\ CallRaised("remove")
    /\ CallRaised("delete")
    /\ outcome.kind = "JSONResponse"

Rank(op) ==
    CASE op = "download" -> 1
      [] op = "upload" -> 2
      [] op = "get" -> 3
      [] op = "generate_content" -> 4
      [] op = "remove" -> 5
      [] op = "delete" -> 6

Pipeline == {"download", "upload", "get", "generate_content"}

\* C9: the external steps run in the order download, upload, poll, query;
\* download, upload and query are each invoked at most once; a step is
\* attempted only if every earlier step succeeded: no upload after a failed
\* download or a missing audio file, no query unless the last fetched state
\* is ready.
C9_StepOrder ==
    /\ \A i, j \in 1..Len(calls) : i < j => Rank(calls[i].op) <= Rank(calls[j].op)
    /\ \A op \in {"download", "upload", "generate_content"} : Count(op) <= 1
    /\ \A i, j \in 1..Len(calls) :
          (i < j /\ calls[j].op \in Pipeline) => ~calls[i].raised
    /\ Called("upload") =>
          /\ returncode = <<0>>
          /\ tmp_audio # NoPath
          /\ tmp_audio \in files \/ Called("remove")
    /\ Called("get") => HandleAllocated
    /\ Called("generate_content") =>
          (HandleAllocated /\ uploaded_file.state = "ACTIVE")

\* C9's case: a request that went through every step, polling more than once
C9_Witness ==
    /\ pc = "done"
    /\ Called("download") /\ Called("upload") /\ Called("generate_content")
    /\ Count("get") >= 2
    /\ outcome.kind = "JSONResponse"

====
